---- MODULE Spec2Model ----
(***************************************************************************)
(* A model of snklog (src/snklog/main.py): a command line tool that lists, *)
(* tails, pages and analyses Snakemake and Slurm log files.                *)
(*                                                                         *)
(* The file system is a map from paths to modification times (0: the file  *)
(* does not exist).  Text is a sequence of one-character strings, a log    *)
(* analysed for failed rules is a sequence of lines.  What a command       *)
(* prints is a sequence of tuples, one per print call.                     *)
(***************************************************************************)
EXTENDS Integers, Sequences, FiniteSets, TLC

VARIABLES
    mt,          \* file system: path -> modification time, 0 when absent
    identifier,  \* argument of get_file_by_identifier
    res,         \* what get_file_by_identifier returned or raised
    cmd,         \* the parsed command line of the invocation (args)
    out,         \* what the invocation printed, one tuple per print call
    opened,      \* files the invocation opened, tailed, paged or analysed
    status,      \* "idle", "returned", "following" or "raised"
    listed,      \* what list_logs printed, one tuple per print call
    listedMt,    \* history: the file system when list_logs ran
    tfile,       \* tail_file, non-follow: the characters of the file
    tn,          \* tail_file, non-follow: num_lines
    tout,        \* tail_file, non-follow: the lines yielded
    tpc,         \* tail_file, non-follow: "start", then "done"
    fdata,       \* follow mode: the characters of the file
    fstart,      \* follow mode: the offset where following started
    fpos,        \* follow mode: the offset of the reader
    femit,       \* follow mode: the strings yielded so far
    fpc,         \* follow mode: "open", "read" or "sleep"
    text,        \* locate_failed_rules_in_log: the lines of the log
    rules,       \* the list of failed-rule records
    verbose,     \* print_rule_logs: the verbose flag
    existing,    \* print_rule_logs: the rule logs that exist on disk
    printed,     \* print_rule_logs: what it printed
    raised,      \* print_rule_logs: whether an exception escaped
    xpc          \* "locate", then "located"; "print", then "printed"

fsVars == <<mt>>
resolveVars == <<identifier, res>>
cmdVars == <<cmd, out, opened, status>>
listVars == <<listed, listedMt>>
tailVars == <<tfile, tn, tout, tpc>>
followVars == <<fdata, fstart, fpos, femit, fpc>>
failedVars == <<text, rules, verbose, existing, printed, raised, xpc>>
vars == <<mt, identifier, res, cmd, out, opened, status, listed, listedMt, tfile, tn,
          tout, tpc, fdata, fstart, fpos, femit, fpc, text, rules, verbose,
          existing, printed, raised, xpc>>

None == "None"

----------------------------------------------------------------------------
(* Bounds of the model.                                                    *)

MaxTime == 2        \* modification times range over 1..MaxTime
MaxRest == 2        \* characters of an identifier after its first
MaxFileLen == 5     \* characters of a file that is tailed
MaxLines == 3       \* largest num_lines of tail_file
MaxFollowLen == 5   \* characters of a file that is followed
MaxTextLines == 5   \* lines of a log scanned for failed rules
MaxRules == 3       \* failed-rule records given to print_rule_logs
MaxNumFiles == 3    \* largest --num-files of list

----------------------------------------------------------------------------
(* Sequences.                                                              *)

SeqsUpTo(S, n) == UNION {[1..k -> S] : k \in 0..n}

Min(a, b) == IF a < b THEN a ELSE b

Max(a, b) == IF a > b THEN a ELSE b

\* Python's s[i:] and s[:j] for an index that may be negative or too large.
SliceIndex(i, len) == IF i < 0 THEN Max(len + i, 0) ELSE Min(i, len)

SliceFrom(s, i) == SubSeq(s, SliceIndex(i, Len(s)) + 1, Len(s))

SliceTo(s, j) == SubSeq(s, 1, SliceIndex(j, Len(s)))

----------------------------------------------------------------------------
(* The two log directories and the files under them.                       *)

SLURM_LOG_DIR == "slurm_logs"
SNAKEMAKE_LOG_DIR == "log"

\* os.walk: the entries of each directory tree, in the order the walk
\* yields them.  "sn.txt" is a file that is not a log.
Walk(directory) ==
    IF directory = SLURM_LOG_DIR THEN <<"sa.log", "sb.log", "sn.txt">>
    ELSE IF directory = SNAKEMAKE_LOG_DIR THEN <<"ma.log", "mb.log">>
    ELSE <<>>

LogPaths == {"sa.log", "sb.log", "ma.log", "mb.log"}
Paths == LogPaths \cup {"sn.txt"}

\* filename.endswith('.log')
EndsWithLog(p) == p \in LogPaths

FileSystems == {m \in [Paths -> 0..MaxTime] : m["sn.txt"] \in {0, 1}}

\* sorted(..., key=getmtime, reverse=True) is stable: a file goes after
\* every file already placed whose mtime is greater or equal.
RECURSIVE InsertSorted(_, _, _)
InsertSorted(s, f, m) ==
    IF s = <<>> THEN <<f>>
    ELSE IF m[Head(s)] >= m[f] THEN <<Head(s)>> \o InsertSorted(Tail(s), f, m)
    ELSE <<f>> \o s

RECURSIVE SortByMtime(_, _, _)
SortByMtime(files, acc, m) ==
    IF files = <<>> THEN acc
    ELSE SortByMtime(Tail(files), InsertSorted(acc, Head(files), m), m)

get_sorted_files(directory, m) ==
    LET present == SelectSeq(Walk(directory),
                             LAMBDA p : m[p] > 0 /\ EndsWithLog(p))
    IN SortByMtime(present, <<>>, m)

----------------------------------------------------------------------------
(* Identifiers: text typed on the command line, such as S1, m2.            *)

FirstChars == {"S", "s", "M", "m", "x"}
RestChars == {"0", "1", "2", "-", "x"}

Identifiers ==
    {<<>>} \cup {<<c>> \o r : c \in FirstChars, r \in SeqsUpTo(RestChars, MaxRest)}

\* str.upper(), one character at a time.
Upper(c) ==
    CASE c = "s" -> "S"
      [] c = "m" -> "M"
      [] c = "x" -> "X"
      [] OTHER -> c

upper(s) == [i \in 1..Len(s) |-> Upper(s[i])]

Digits == {"0", "1", "2", "3", "4", "5", "6", "7", "8", "9"}

DigitVal(c) ==
    CASE c = "0" -> 0 [] c = "1" -> 1 [] c = "2" -> 2 [] c = "3" -> 3
      [] c = "4" -> 4 [] c = "5" -> 5 [] c = "6" -> 6 [] c = "7" -> 7
      [] c = "8" -> 8 [] c = "9" -> 9

RECURSIVE DecimalValue(_, _)
DecimalValue(s, acc) ==
    IF s = <<>> THEN acc
    ELSE DecimalValue(Tail(s), 10 * acc + DigitVal(Head(s)))

\* int(s) for a string over digits, "-" and letters: an optional sign and
\* at least one digit, anything else raises ValueError.
int(s) ==
    LET neg == s # <<>> /\ Head(s) = "-"
        digits == IF neg THEN Tail(s) ELSE s
    IN IF digits # <<>> /\ \A i \in 1..Len(digits) : digits[i] \in Digits
       THEN [ok |-> TRUE,
             val |-> IF neg THEN 0 - DecimalValue(digits, 0)
                     ELSE DecimalValue(digits, 0)]
       ELSE [ok |-> FALSE, val |-> 0]

----------------------------------------------------------------------------
(* get_file_by_identifier                                                  *)

InvalidCategoryMsg == <<"Invalid identifier. Use 'S' for Slurm logs or 'M' for Snakemake logs.">>
InvalidFormatMsg == <<"Invalid identifier format. Use 'S<number>' or 'M<number>'.">>
InvalidNumberMsg(n) == <<"Invalid file number. Please choose a number between 1 and", n>>

Return(f) == [kind |-> "file", file |-> f, msg |-> <<>>]
Raise(m) == [kind |-> "ValueError", file |-> None, msg |-> m]

\* index = int(identifier[1:]) - 1
OrdinalIndexNoShift(n) == n

OrdinalIndex(n) == n - 1

\* The body of the try block: it raises ValueError when int() does and
\* when the index is out of range.
TryResolve(id, files) ==
    LET n == int(Tail(id))
        index == OrdinalIndex(n.val)
    IN IF ~n.ok THEN Raise(<<"invalid literal for int()">>)
       ELSE IF index < 0 \/ index >= Len(files)
            THEN Raise(InvalidNumberMsg(Len(files)))
       ELSE Return(files[index + 1])

\* except ValueError: every ValueError of the try block is replaced.
ExceptValueError(r) ==
    IF r.kind = "ValueError" THEN Raise(InvalidFormatMsg) ELSE r

get_file_by_identifier(ident, m) ==
    LET id == upper(ident)
    IN IF id # <<>> /\ Head(id) = "S"
       THEN ExceptValueError(TryResolve(id, get_sorted_files(SLURM_LOG_DIR, m)))
       ELSE IF id # <<>> /\ Head(id) = "M"
       THEN ExceptValueError(TryResolve(id, get_sorted_files(SNAKEMAKE_LOG_DIR, m)))
       ELSE Raise(InvalidCategoryMsg)

NoResult == [kind |-> "none", file |-> None, msg |-> <<>>]

----------------------------------------------------------------------------
(* The values of the variables an operation does not use.                  *)

FsIdle == mt = [p \in Paths |-> 0]
ResolveIdle == identifier = <<>> /\ res = NoResult
NoCommand ==
    [command |-> None, identifier |-> <<>>, given |-> FALSE, lines |-> 0,
     follow |-> FALSE]
CmdIdle == cmd = NoCommand /\ out = <<>> /\ opened = <<>> /\ status = "idle"
ListIdle == listed = <<>> /\ listedMt = [p \in Paths |-> 0]
TailIdle == tfile = <<>> /\ tn = 0 /\ tout = <<>> /\ tpc = "off"
FollowIdle ==
    fdata = <<>> /\ fstart = 0 /\ fpos = 0 /\ femit = <<>> /\ fpc = "off"
FailedIdle ==
    /\ text = <<>> /\ rules = <<>> /\ verbose = FALSE /\ existing = {}
    /\ printed = <<>> /\ raised = FALSE /\ xpc = "off"

----------------------------------------------------------------------------
(* SpecResolve: get_file_by_identifier on every file system and every      *)
(* identifier of the bounds.                                               *)

InitResolve ==
    /\ mt \in FileSystems
    /\ identifier \in Identifiers
    /\ res = NoResult
    /\ CmdIdle /\ ListIdle /\ TailIdle /\ FollowIdle /\ FailedIdle

Resolve ==
    /\ res = NoResult
    /\ res' = get_file_by_identifier(identifier, mt)
    /\ UNCHANGED <<mt, identifier>>
    /\ UNCHANGED <<cmdVars, listVars, tailVars, followVars, failedVars>>

NextResolve == Resolve

SpecResolve == InitResolve /\ [][NextResolve]_vars

\* What the claims say, stated without the operators of the code.
CategoryDir(c) ==
    IF c \in {"S", "s"} THEN SLURM_LOG_DIR ELSE SNAKEMAKE_LOG_DIR

CategoryLogs(c, m) ==
    {p \in LogPaths : m[p] > 0 /\ \E i \in 1..Len(Walk(CategoryDir(c))) :
                                      Walk(CategoryDir(c))[i] = p}

WalkPos(p) ==
    CHOOSE i \in 1..3 : \E d \in {SLURM_LOG_DIR, SNAKEMAKE_LOG_DIR} :
        i <= Len(Walk(d)) /\ Walk(d)[i] = p

MoreRecent(g, f, m) ==
    m[g] > m[f] \/ (m[g] = m[f] /\ WalkPos(g) < WalkPos(f))

NthMostRecent(c, n, m) ==
    CHOOSE f \in CategoryLogs(c, m) :
        Cardinality({g \in CategoryLogs(c, m) : MoreRecent(g, f, m)}) = n - 1

Numeral(n) == CASE n = 1 -> "1" [] n = 2 -> "2" [] n = 3 -> "3" [] OTHER -> "?"

OtherCase(c) ==
    CASE c = "S" -> "s" [] c = "s" -> "S" [] c = "M" -> "m" [] c = "m" -> "M"
      [] OTHER -> c

\* C1: an identifier <c><n> with c in {S, s, M, m} and 1 <= n <=
\* count(c) resolves to the n-th most recent log file of the category, and
\* the same identifier with the letter in the other case resolves to the
\* same file.
C1_ResolvesNthMostRecent ==
    res # NoResult =>
        \A c \in {"S", "s", "M", "m"} :
            \A n \in 1..Cardinality(CategoryLogs(c, mt)) :
                identifier = <<c, Numeral(n)>> =>
                    /\ res = Return(NthMostRecent(c, n, mt))
                    /\ get_file_by_identifier(<<OtherCase(c), Numeral(n)>>, mt) = res

\* Witness of C1: s2 resolved to the older of two Slurm logs, which the
\* walk yields first.
C1_Witness ==
    /\ identifier = <<"s", "2">>
    /\ mt["sa.log"] > 0 /\ mt["sb.log"] > mt["sa.log"]
    /\ res = Return("sa.log")

\* C2: an identifier with a valid category letter and an integer ordinal
\* outside [1, count] fails with the "invalid file number" error, whose
\* message states the bound count.
C2_OutOfRangeReported ==
    (/\ res # NoResult
     /\ identifier # <<>>
     /\ Head(identifier) \in {"S", "s", "M", "m"}
     /\ int(Tail(identifier)).ok
     /\ int(Tail(identifier)).val \notin
            1..Cardinality(CategoryLogs(Head(identifier), mt)))
    => res = Raise(InvalidNumberMsg(
                 Cardinality(CategoryLogs(Head(identifier), mt))))

----------------------------------------------------------------------------
(* tail_file, follow=False                                                 *)

Whitespace == {" ", "\n"}

\* f.readlines(): the lines of the file, each with its newline; the last
\* line has none when the file does not end with one.
RECURSIVE SplitLines(_, _)
SplitLines(chars, cur) ==
    IF chars = <<>> THEN (IF cur = <<>> THEN <<>> ELSE <<cur>>)
    ELSE IF Head(chars) = "\n"
         THEN <<Append(cur, "\n")>> \o SplitLines(Tail(chars), <<>>)
    ELSE SplitLines(Tail(chars), Append(cur, Head(chars)))

readlines(chars) == SplitLines(chars, <<>>)

RECURSIVE lstrip(_)
lstrip(s) ==
    IF s # <<>> /\ Head(s) \in Whitespace THEN lstrip(Tail(s)) ELSE s

RECURSIVE rstrip(_)
rstrip(s) ==
    IF s # <<>> /\ s[Len(s)] \in Whitespace
    THEN rstrip(SubSeq(s, 1, Len(s) - 1)) ELSE s

\* str.strip() removes whitespace at both ends.
strip(s) == lstrip(rstrip(s))

\* for line in lines[-num_lines:]: yield line.strip()
tail_file(chars, num_lines) ==
    LET lines == readlines(chars)
        last == SliceFrom(lines, 0 - num_lines)
    IN [i \in 1..Len(last) |-> strip(last[i])]

TailChars == {"a", " ", "\n"}

InitTail ==
    /\ tfile \in SeqsUpTo(TailChars, MaxFileLen)
    /\ tn \in (0 - 1)..MaxLines
    /\ tout = <<>>
    /\ tpc = "start"
    /\ FsIdle /\ ResolveIdle /\ CmdIdle /\ ListIdle /\ FollowIdle /\ FailedIdle

TailFile ==
    /\ tpc = "start"
    /\ tout' = tail_file(tfile, tn)
    /\ tpc' = "done"
    /\ UNCHANGED <<tfile, tn>>
    /\ UNCHANGED <<fsVars, resolveVars, cmdVars, listVars, followVars, failedVars>>

NextTail == TailFile

SpecTail == InitTail /\ [][NextTail]_vars

\* C3: with N >= 0 lines asked for, tail_file yields the last
\* min(N, number of lines) lines of the file in their order, each with its
\* trailing whitespace removed and its leading whitespace kept.
C3_TailLastLinesRightTrimmed ==
    (tpc = "done" /\ tn >= 0) =>
        LET lines == readlines(tfile)
            k == Min(tn, Len(lines))
        IN /\ Len(tout) = k
           /\ \A i \in 1..k : tout[i] = rstrip(lines[Len(lines) - k + i])

----------------------------------------------------------------------------
(* tail_file, follow=True: the reader polls a file that a writer appends   *)
(* to, a chunk at a time; a chunk need not end with a newline.             *)

FollowChars == {"a", "\n"}

Chunks == SeqsUpTo(FollowChars, 2) \ {<<>>}

\* f.readline() at an offset: the characters up to and including the next
\* newline, or up to the end of the file when there is none.
RECURSIVE ReadLineFrom(_, _)
ReadLineFrom(chars, pos) ==
    IF pos >= Len(chars) THEN <<>>
    ELSE IF chars[pos + 1] = "\n" THEN <<"\n">>
    ELSE <<chars[pos + 1]>> \o ReadLineFrom(chars, pos + 1)

InitFollow ==
    /\ fdata = <<>>
    /\ fstart = 0
    /\ fpos = 0
    /\ femit = <<>>
    /\ fpc = "open"
    /\ FsIdle /\ ResolveIdle /\ CmdIdle /\ ListIdle /\ TailIdle /\ FailedIdle

\* The writer of the log appends a chunk.
WriterAppend ==
    /\ \E chunk \in Chunks :
        /\ Len(fdata) + Len(chunk) <= MaxFollowLen
        /\ fdata' = fdata \o chunk
    /\ UNCHANGED <<fstart, fpos, femit, fpc>>
    /\ UNCHANGED <<fsVars, resolveVars, cmdVars, listVars, tailVars, failedVars>>

\* open(file); f.seek(0, 2)
FollowSeekEnd ==
    /\ fpc = "open"
    /\ fpos' = Len(fdata)
    /\ fstart' = Len(fdata)
    /\ fpc' = "read"
    /\ UNCHANGED <<fdata, femit>>
    /\ UNCHANGED <<fsVars, resolveVars, cmdVars, listVars, tailVars, failedVars>>

\* line = f.readline(); if not line: sleep and continue; else yield line
FollowReadLine ==
    /\ fpc = "read"
    /\ LET line == ReadLineFrom(fdata, fpos)
       IN IF line = <<>>
          THEN /\ fpc' = "sleep"
               /\ UNCHANGED <<fpos, femit>>
          ELSE /\ femit' = Append(femit, line)
               /\ fpos' = fpos + Len(line)
               /\ fpc' = "read"
    /\ UNCHANGED <<fdata, fstart>>
    /\ UNCHANGED <<fsVars, resolveVars, cmdVars, listVars, tailVars, failedVars>>

\* time.sleep(0.1); continue
FollowSleep ==
    /\ fpc = "sleep"
    /\ fpc' = "read"
    /\ UNCHANGED <<fdata, fstart, fpos, femit>>
    /\ UNCHANGED <<fsVars, resolveVars, cmdVars, listVars, tailVars, failedVars>>

NextFollow == WriterAppend \/ FollowSeekEnd \/ FollowReadLine \/ FollowSleep

SpecFollow == InitFollow /\ [][NextFollow]_vars

\* The complete lines, those ended by a newline, of a text.
CompleteLines(chars) ==
    SelectSeq(readlines(chars), LAMBDA l : l[Len(l)] = "\n")

AppendedSinceStart == SubSeq(fdata, fstart + 1, Len(fdata))

\* C8: once the reader has read up to the end of the file, every complete
\* line appended since following started has been emitted.
C8_FollowEmitsAppendedLines ==
    (fpc \in {"read", "sleep"} /\ fpos = Len(fdata)) =>
        \A i \in 1..Len(CompleteLines(AppendedSinceStart)) :
            \E j \in 1..Len(femit) :
                femit[j] = CompleteLines(AppendedSinceStart)[i]

----------------------------------------------------------------------------
(* locate_failed_rules_in_log.  A log is a sequence of lines of four       *)
(* kinds: "[<timestamp>]", "Error in rule <name>:",                         *)
(* "log: <path> (check log file(s) for error details)", and any other      *)
(* line, which holds no bracket and no "log: ".  Timestamps are the 24     *)
(* characters Snakemake writes, so time.strip()[0:24] of a capture that    *)
(* starts at a timestamp line is that timestamp.                           *)

Timestamps == {"t1", "t2"}
RuleNames == {"A", "B"}
RuleLogs == {"p1", "p2"}

TsLine(t) == [k |-> "ts", v |-> t]
ErrLine(r) == [k |-> "err", v |-> r]
LogLine(p) == [k |-> "log", v |-> p]
OtherLine == [k |-> "other", v |-> ""]

LogLines ==
    {TsLine(t) : t \in Timestamps} \cup {ErrLine(r) : r \in RuleNames}
    \cup {LogLine(p) : p \in RuleLogs} \cup {OtherLine}

IsTs(content, i) == content[i].k = "ts"

\* \]\nError in rule (\w+):  a line that closes a bracket, then the error
IsTsThenErr(content, i) ==
    content[i].k = "ts" /\ i < Len(content) /\ content[i + 1].k = "err"

IsLog(content, i) == content[i].k = "log"

LineIs(what, content, i) ==
    CASE what = "ts" -> IsTs(content, i)
      [] what = "ts then err" -> IsTsThenErr(content, i)
      [] what = "log" -> IsLog(content, i)

\* The first index >= from where the scan finds `what`, 0 when none.
FirstFrom(content, from, what) ==
    LET hits == {i \in from..Len(content) : LineIs(what, content, i)}
    IN IF hits = {} THEN 0 ELSE CHOOSE i \in hits : \A h \in hits : i <= h

\* re.findall of \[(.*?)\]\nError in rule (\w+):.*?log: (.*?) \(check log
\* file\(s\) for error details\) with DOTALL, scanning from line `from`.
\* The match starts at the first bracket; the lazy groups end at the first
\* bracket line followed by an error line and at the first log line after.
RECURSIVE FindPrimary(_, _)
FindPrimary(content, from) ==
    LET i == FirstFrom(content, from, "ts")
        j == IF i = 0 THEN 0 ELSE FirstFrom(content, i, "ts then err")
        l == IF j = 0 THEN 0 ELSE FirstFrom(content, j + 2, "log")
    IN IF l = 0 THEN <<>>
       ELSE <<<<content[i].v, content[j + 1].v, content[l].v>>>>
            \o FindPrimary(content, l + 1)

\* re.findall of \[(.*?)\]\nError in rule (\w+): with DOTALL.
RECURSIVE FindFallback(_, _)
FindFallback(content, from) ==
    LET i == FirstFrom(content, from, "ts")
        j == IF i = 0 THEN 0 ELSE FirstFrom(content, i, "ts then err")
    IN IF j = 0 THEN <<>>
       ELSE <<<<content[i].v, content[j + 1].v>>>>
            \o FindFallback(content, j + 2)

MatchesAndFallback(matches, content) == matches \o FindFallback(content, 1)

\* if not matches: matches = re.findall(<the pattern without the log>)
MatchesOrFallback(matches, content) ==
    IF matches = <<>> THEN FindFallback(content, 1) ELSE matches

\* time, rule_name, *log_file = match
FailedRule(match) ==
    LET log_file == SubSeq(match, 3, Len(match))
    IN [time |-> match[1],
        rule_name |-> match[2],
        log_file |-> IF log_file # <<>> THEN log_file[1] ELSE None]

locate_failed_rules_in_log(content) ==
    LET matches == MatchesOrFallback(FindPrimary(content, 1), content)
    IN [i \in 1..Len(matches) |-> FailedRule(matches[i])]

InitExtract ==
    /\ text \in SeqsUpTo(LogLines, MaxTextLines)
    /\ rules = <<>>
    /\ xpc = "locate"
    /\ verbose = FALSE /\ existing = {} /\ printed = <<>> /\ raised = FALSE
    /\ FsIdle /\ ResolveIdle /\ CmdIdle /\ ListIdle /\ TailIdle /\ FollowIdle

Locate ==
    /\ xpc = "locate"
    /\ rules' = locate_failed_rules_in_log(text)
    /\ xpc' = "located"
    /\ UNCHANGED <<text, verbose, existing, printed, raised>>
    /\ UNCHANGED <<fsVars, resolveVars, cmdVars, listVars, tailVars, followVars>>

NextExtract == Locate

SpecExtract == InitExtract /\ [][NextExtract]_vars

\* A log made of failed-rule blocks only: a timestamp line, the error line
\* and, in some blocks, the log line.
BlockLen(content) ==
    IF Len(content) >= 3 /\ content[1].k = "ts" /\ content[2].k = "err"
       /\ content[3].k = "log" THEN 3
    ELSE IF Len(content) >= 2 /\ content[1].k = "ts" /\ content[2].k = "err"
    THEN 2
    ELSE 0

RECURSIVE IsBlockLog(_)
IsBlockLog(content) ==
    \/ content = <<>>
    \/ /\ BlockLen(content) > 0
       /\ IsBlockLog(SubSeq(content, BlockLen(content) + 1, Len(content)))

\* One record per block of a log made of blocks.
RECURSIVE BlockRecords(_)
BlockRecords(content) ==
    IF content = <<>> THEN <<>>
    ELSE <<[time |-> content[1].v,
            rule_name |-> content[2].v,
            log_file |-> IF BlockLen(content) = 3 THEN content[3].v ELSE None]>>
         \o BlockRecords(SubSeq(content, BlockLen(content) + 1, Len(content)))

\* C4: for a log made of failed-rule blocks, with and without a log line
\* in any mix, the result is one record per block in order of appearance,
\* each with the timestamp, rule name and log path of its own block.
C4_OneRecordPerBlock ==
    (xpc = "located" /\ IsBlockLog(text)) => rules = BlockRecords(text)

\* C5: when the pattern with the log path matches at all, the records are
\* its matches and nothing else, each with a log path; a record without a
\* log path appears only when that pattern matched nothing.
C5_FallbackOnlyWhenNoPrimary ==
    xpc = "located" =>
        LET primary == FindPrimary(text, 1)
        IN /\ primary # <<>> =>
                /\ Len(rules) = Len(primary)
                /\ \A i \in 1..Len(rules) :
                    /\ rules[i].log_file # None
                    /\ <<rules[i].time, rules[i].rule_name, rules[i].log_file>>
                           = primary[i]
           /\ (\E i \in 1..Len(rules) : rules[i].log_file = None)
                => primary = <<>>

\* Witness of C5: one failure in full form gave exactly one record.
C5_Witness ==
    /\ xpc = "located"
    /\ text = <<TsLine("t1"), ErrLine("A"), OtherLine, LogLine("p1")>>
    /\ rules = <<[time |-> "t1", rule_name |-> "A", log_file |-> "p1"]>>

----------------------------------------------------------------------------
(* print_rule_logs.  What it prints, one tuple per print call; a rule log  *)
(* either exists, and open() gives its content, or does not, and open()    *)
(* raises FileNotFoundError.                                               *)

open(path, files) ==
    IF path \in files THEN [exc |-> None, data |-> <<"content of", path>>]
    ELSE [exc |-> "FileNotFoundError", data |-> <<>>]

CatchesNothing(exc) == FALSE

\* except FileNotFoundError
CatchesFileNotFound(exc) == exc = "FileNotFoundError"

\* One iteration of the loop: what it prints and the exception, if any,
\* that leaves it.
PrintOneRule(rule, verb, files) ==
    LET head == << <<"separator">>,
                   <<"Rule:", rule.rule_name>>,
                   <<"Time:", rule.time>>,
                   <<"Log file:", rule.log_file>> >>
        f == open(rule.log_file, files)
    IN IF rule.log_file = None
       THEN [out |-> head \o << <<"No specific log file assigned to this rule.">> >>,
             exc |-> None]
       ELSE IF ~verb THEN [out |-> head, exc |-> None]
       ELSE LET note == << <<"Printing snakemake job logs. Ensure the latest snakemake log is used as specific job logs may have been overwritten.">>,
                           <<"separator">> >>
            IN IF f.exc = None
               THEN [out |-> head \o note \o <<f.data>>, exc |-> None]
               ELSE IF CatchesFileNotFound(f.exc)
               THEN [out |-> head \o note
                                 \o << <<"Log file not found:", rule.log_file>> >>,
                     exc |-> None]
               ELSE [out |-> head \o note, exc |-> f.exc]

\* for rule in failed_rules: ...   An exception ends the loop.
RECURSIVE print_rule_logs(_, _, _)
print_rule_logs(failed_rules, verb, files) ==
    IF failed_rules = <<>> THEN [out |-> <<>>, exc |-> None]
    ELSE LET one == PrintOneRule(Head(failed_rules), verb, files)
             rest == print_rule_logs(Tail(failed_rules), verb, files)
         IN IF one.exc # None THEN one
            ELSE [out |-> one.out \o rest.out, exc |-> rest.exc]

\* The records locate_failed_rules_in_log can return: all with a log path
\* or, from the fallback pattern, all without.
RecordsWithLog ==
    [time : Timestamps, rule_name : RuleNames, log_file : RuleLogs]
RecordsWithoutLog ==
    [time : Timestamps, rule_name : RuleNames, log_file : {None}]

\* show_failed_rules calls print_rule_logs with at least one record.
RuleLists ==
    (SeqsUpTo(RecordsWithLog, MaxRules) \cup SeqsUpTo(RecordsWithoutLog, MaxRules))
    \ {<<>>}

InitPrint ==
    /\ rules \in RuleLists
    /\ verbose \in BOOLEAN
    /\ existing \in SUBSET RuleLogs
    /\ printed = <<>>
    /\ raised = FALSE
    /\ xpc = "print"
    /\ text = <<>>
    /\ FsIdle /\ ResolveIdle /\ CmdIdle /\ ListIdle /\ TailIdle /\ FollowIdle

PrintRuleLogs ==
    /\ xpc = "print"
    /\ LET r == print_rule_logs(rules, verbose, existing)
       IN /\ printed' = r.out
          /\ raised' = (r.exc # None)
    /\ xpc' = "printed"
    /\ UNCHANGED <<text, rules, verbose, existing>>
    /\ UNCHANGED <<fsVars, resolveVars, cmdVars, listVars, tailVars, followVars>>

NextPrint == PrintRuleLogs

SpecPrint == InitPrint /\ [][NextPrint]_vars

IsNote(item) == item[1] = "Printing snakemake job logs. Ensure the latest snakemake log is used as specific job logs may have been overwritten."

\* C6: a verbose report that shows at least one rule log prints the note
\* about overwritten job logs exactly once.
C6_NoteOncePerInvocation ==
    (/\ xpc = "printed" /\ verbose
     /\ \E i \in 1..Len(rules) : rules[i].log_file # None)
    => Len(SelectSeq(printed, IsNote)) = 1

\* The items of one kind that were printed, in order.
PrintedOf(kind) == SelectSeq(printed, LAMBDA item : item[1] = kind)

\* C7: in a verbose report a record whose log does not exist gets the
\* "log file not found" notice and no exception escapes; every record,
\* those after it included, is printed with its rule name, timestamp and
\* log path, and the content of every log that exists is printed.
C7_MissingLogDoesNotAbort ==
    (xpc = "printed" /\ verbose) =>
        /\ ~raised
        /\ PrintedOf("Rule:") =
               [i \in 1..Len(rules) |-> <<"Rule:", rules[i].rule_name>>]
        /\ PrintedOf("Time:") =
               [i \in 1..Len(rules) |-> <<"Time:", rules[i].time>>]
        /\ PrintedOf("Log file:") =
               [i \in 1..Len(rules) |-> <<"Log file:", rules[i].log_file>>]
        /\ LET missing == SelectSeq(rules, LAMBDA r :
                              r.log_file # None /\ r.log_file \notin existing)
               present == SelectSeq(rules, LAMBDA r : r.log_file \in existing)
           IN /\ PrintedOf("Log file not found:") =
                    [i \in 1..Len(missing) |->
                        <<"Log file not found:", missing[i].log_file>>]
              /\ PrintedOf("content of") =
                    [i \in 1..Len(present) |-> <<"content of", present[i].log_file>>]

\* Witness of C7: the first record's log is missing, the second's exists,
\* and both were reported.
C7_Witness ==
    /\ xpc = "printed" /\ verbose /\ ~raised
    /\ Len(rules) = 2
    /\ rules[1].log_file = "p1" /\ rules[2].log_file = "p2"
    /\ existing = {"p2"}
    /\ <<"Log file not found:", "p1">> \in {printed[i] : i \in 1..Len(printed)}
    /\ printed[Len(printed)] = <<"content of", "p2">>

----------------------------------------------------------------------------
(* list_logs, and a resolution that follows a listing.                     *)

\* for i, file in enumerate(files[:num_files], 1): print(f"{tag}{i}. ...")
ListEntries(tag, files, num_files, m) ==
    LET shown == SliceTo(files, num_files)
    IN [i \in 1..Len(shown) |-> <<tag, i, m[shown[i]], shown[i]>>]

list_logs(num_files, m) ==
    LET slurm_files == get_sorted_files(SLURM_LOG_DIR, m)
        snakemake_files == get_sorted_files(SNAKEMAKE_LOG_DIR, m)
    IN << <<"Total number of Slurm log files:", Len(slurm_files)>>,
          <<"Total number of Snakemake log files:", Len(snakemake_files)>>,
          <<"most recent Slurm log files:", num_files>> >>
       \o ListEntries("S", slurm_files, num_files, m)
       \o << <<"most recent Snakemake log files:", num_files>> >>
       \o ListEntries("M", snakemake_files, num_files, m)

\* The identifiers that a listing can print as labels.
Labels == {<<c, d>> : c \in {"S", "M"}, d \in {"1", "2"}}

InitList ==
    /\ mt \in FileSystems
    /\ listed = <<>>
    /\ listedMt = mt
    /\ identifier = <<>>
    /\ res = NoResult
    /\ CmdIdle /\ TailIdle /\ FollowIdle /\ FailedIdle

\* snklog list -n <num_files>
ListLogs ==
    /\ listed = <<>>
    /\ \E num_files \in (0 - 1)..MaxNumFiles :
        listed' = list_logs(num_files, mt)
    /\ listedMt' = mt
    /\ UNCHANGED <<mt, identifier, res>>
    /\ UNCHANGED <<cmdVars, tailVars, followVars, failedVars>>

\* A workflow or a job writes a log that did not exist; its modification
\* time is not before that of any log already there.
NewLog ==
    /\ listed # <<>>
    /\ res = NoResult
    /\ \E p \in LogPaths, t \in 1..MaxTime :
        /\ mt[p] = 0
        /\ \A q \in LogPaths : mt[q] <= t
        /\ mt' = [mt EXCEPT ![p] = t]
    /\ UNCHANGED <<identifier, res, listed, listedMt>>
    /\ UNCHANGED <<cmdVars, tailVars, followVars, failedVars>>

\* A later invocation resolves a label.
ResolveLabel ==
    /\ listed # <<>>
    /\ res = NoResult
    /\ \E label \in Labels :
        /\ identifier' = label
        /\ res' = get_file_by_identifier(label, mt)
    /\ UNCHANGED <<mt, listed, listedMt>>
    /\ UNCHANGED <<cmdVars, tailVars, followVars, failedVars>>

NextList == ListLogs \/ NewLog \/ ResolveLabel

SpecList == InitList /\ [][NextList]_vars

\* The entries a listing printed for one category.
EntriesOf(tag) ==
    SelectSeq(listed, LAMBDA item : item[1] = tag /\ Len(item) = 4)

\* A log of the category that is strictly newer than all listed ones has
\* appeared since the listing, and nothing else changed.
NewerAppeared(tag) ==
    \E p \in CategoryLogs(tag, mt) :
        /\ listedMt[p] = 0
        /\ \A q \in LogPaths \ {p} : mt[q] = listedMt[q] /\ mt[q] < mt[p]

\* C10: list -n N prints, per category, min(N, count) entries (none when
\* N <= 0) labelled 1, 2, ... in recency order; while the log files do not
\* change a printed label resolves to the file printed with it; after a
\* newer log of the category has appeared it resolves to another file.
C10_ListingAgreesWithResolution ==
    listed # <<>> =>
        \A tag \in {"S", "M"} :
            LET entries == EntriesOf(tag)
                count == Cardinality(CategoryLogs(tag, listedMt))
                n == listed[3][2]
            IN /\ Len(entries) = Max(0, Min(n, count))
               /\ \A i \in 1..Len(entries) :
                    /\ entries[i][2] = i
                    /\ entries[i][4] = NthMostRecent(tag, i, listedMt)
                    /\ (res # NoResult /\ identifier = <<tag, Numeral(i)>>) =>
                        /\ mt = listedMt => res = Return(entries[i][4])
                        /\ NewerAppeared(tag) =>
                               res.kind = "file" /\ res.file # entries[i][4]

----------------------------------------------------------------------------
(* The commands tail, less, failed and failedv: one invocation each.  The  *)
(* content of the file a command reads, the rule logs that exist and       *)
(* whether the pager can be started are inputs of the invocation.          *)

DefaultLines == 10

\* Identifiers given on the command line, one or more of every kind.
CmdIdentifiers ==
    {<<"S", "1">>, <<"s", "2">>, <<"m", "1">>, <<"M", "2">>, <<"x", "1">>,
     <<"1">>, <<"S", "x">>, <<"m">>, <<"M", "0">>, <<"s", "-", "1">>,
     <<"S", "1", "2">>, <<>>}

\* Files that are tailed.
CmdFiles == {<<>>, <<"a", "\n", " ", "a", "\n">>}

\* Workflow logs that are analysed: no failure, one failure with its log,
\* two failures without.
CmdLogs ==
    {<<OtherLine>>,
     <<TsLine("t1"), ErrLine("A"), OtherLine, LogLine("p1")>>,
     <<TsLine("t1"), ErrLine("A"), TsLine("t2"), ErrLine("B")>>}

InitCmd ==
    /\ mt \in FileSystems
    /\ CmdIdle
    /\ ResolveIdle /\ ListIdle /\ TailIdle /\ FollowIdle /\ FailedIdle

\* except ValueError as e: print(str(e)); return
PrintAndReturn(r) ==
    /\ out' = <<r.msg>>
    /\ opened' = <<>>
    /\ status' = "returned"

\* snklog tail <identifier> [-n lines] [-f]
tail_log ==
    /\ status = "idle"
    /\ \E id \in CmdIdentifiers, lines \in {1, DefaultLines},
          follow \in BOOLEAN, content \in CmdFiles :
        /\ cmd' = [command |-> "tail", identifier |-> id, given |-> TRUE,
                   lines |-> lines, follow |-> follow]
        /\ LET r == get_file_by_identifier(id, mt)
           IN IF r.kind = "ValueError" THEN PrintAndReturn(r)
              ELSE /\ opened' = << <<"tail", r.file>> >>
                   /\ IF follow
                      THEN /\ out' = << <<"Tailing the log file:", r.file>> >>
                           /\ status' = "following"
                      ELSE /\ out' = << <<"Tailing the log file:", r.file>> >>
                                     \o tail_file(content, lines)
                           /\ status' = "returned"
    /\ UNCHANGED <<fsVars, resolveVars, listVars, tailVars, followVars, failedVars>>

\* snklog less <identifier>; subprocess.run raises when there is no pager.
less_log ==
    /\ status = "idle"
    /\ \E id \in CmdIdentifiers, pager \in BOOLEAN :
        /\ cmd' = [command |-> "less", identifier |-> id, given |-> TRUE,
                   lines |-> 0, follow |-> FALSE]
        /\ LET r == get_file_by_identifier(id, mt)
           IN IF r.kind = "ValueError" THEN PrintAndReturn(r)
              ELSE /\ out' = <<>>
                   /\ IF pager
                      THEN opened' = << <<"less", r.file>> >> /\ status' = "returned"
                      ELSE opened' = <<>> /\ status' = "raised"
    /\ UNCHANGED <<fsVars, resolveVars, listVars, tailVars, followVars, failedVars>>

LeastRecent(files) == files[Len(files)]

\* log_file = snakemake_files[0]
MostRecent(files) == files[1]

\* The part of show_failed_rules after the log file is chosen.
AnalyzeLog(log_file, verb, content, files) ==
    LET failed_rules == locate_failed_rules_in_log(content)
        p == print_rule_logs(failed_rules, verb, files)
        head == << <<"Analyzing Snakemake log:", log_file>> >>
    IN /\ opened' = << <<"analyse", log_file>> >>
       /\ IF failed_rules = <<>>
          THEN /\ out' = head \o << <<"No failed rules found in the log.">> >>
               /\ status' = "returned"
          ELSE /\ out' = head \o << <<"Found failed rule(s):", Len(failed_rules)>> >>
                              \o p.out
               /\ status' = IF p.exc = None THEN "returned" ELSE "raised"

\* snklog failed [identifier] (verb = FALSE), snklog failedv [identifier];
\* args.identifier is None when none is given, and "if args.identifier"
\* takes None and the empty string alike.
show_failed_rules(verb) ==
    /\ status = "idle"
    /\ \E given \in BOOLEAN, content \in CmdLogs, files \in SUBSET RuleLogs :
      \E id \in IF given THEN CmdIdentifiers ELSE {<<>>} :
        /\ cmd' = [command |-> IF verb THEN "failedv" ELSE "failed",
                   identifier |-> id, given |-> given,
                   lines |-> 0, follow |-> FALSE]
        /\ IF given /\ id # <<>>
           THEN LET r == get_file_by_identifier(id, mt)
                IN IF r.kind = "ValueError" THEN PrintAndReturn(r)
                   ELSE AnalyzeLog(r.file, verb, content, files)
           ELSE LET snakemake_files == get_sorted_files(SNAKEMAKE_LOG_DIR, mt)
                IN IF snakemake_files = <<>>
                   THEN /\ out' = << <<"No Snakemake log files found.">> >>
                        /\ opened' = <<>>
                        /\ status' = "returned"
                   ELSE AnalyzeLog(MostRecent(snakemake_files), verb, content, files)
    /\ UNCHANGED <<fsVars, resolveVars, listVars, tailVars, followVars, failedVars>>

failed == show_failed_rules(FALSE)

failedv == show_failed_rules(TRUE)

NextCmd == tail_log \/ less_log \/ failed \/ failedv

Spec == InitCmd /\ [][NextCmd]_vars

\* An identifier that names a log: a category letter in either case and
\* the ordinal of one of the category's logs.
NamesALog(id, m) ==
    /\ Len(id) >= 2
    /\ id[1] \in {"S", "s", "M", "m"}
    /\ int(Tail(id)).ok
    /\ int(Tail(id)).val \in 1..Cardinality(CategoryLogs(id[1], m))

IdentifierGiven ==
    cmd.command \in {"tail", "less"} \/ (cmd.given /\ cmd.identifier # <<>>)

====
